---- MODULE Spec2Model ----
(***************************************************************************)
(* HR AI Platform: the Flask front end (src/app.py) and the Streamlit      *)
(* front end (src/New4.py).                                                *)
(*                                                                         *)
(* Texts are sequences of tokens.  A token is a whitespace run (" " or     *)
(* "\n"), an English stop word ("the"), or any other word.  Python's       *)
(* str.strip, str.split("\n") and the TF-IDF tokeniser are modelled on     *)
(* that representation.                                                    *)
(***************************************************************************)
EXTENDS Integers, Sequences, FiniteSets, TLC

VARIABLES app, sessions, st, req, calls, resp, threads, ident

vars == <<app, sessions, st, req, calls, resp, threads, ident>>

(***************************************************************************)
(* Bounds                                                                  *)
(***************************************************************************)
\* longest list of files in one request of the full specification
MaxFiles == 1
\* longest CV batch in the CV-evaluation specification
MaxCvs == 3
\* longest question / answer list in an evaluate-answers request
MaxQA == 2
\* longest text handed to similarity_score, in tokens
MaxLen == 2
\* requests one thread serves where requests overlap
MaxServed == 2
\* longest list of policy documents in the policy-upload specification
MaxPolicies == 3

(***************************************************************************)
(* Texts                                                                   *)
(***************************************************************************)
NL == "\n"
Whitespace == {" ", NL}
StopWords == {"the"}

\* Python's truthiness of a str / list
Truthy(s) == Len(s) > 0

RECURSIVE lstrip(_)
lstrip(s) ==
    IF s = <<>> THEN <<>>
    ELSE IF Head(s) \in Whitespace THEN lstrip(Tail(s)) ELSE s

RECURSIVE rstrip(_)
rstrip(s) ==
    IF s = <<>> THEN <<>>
    ELSE IF s[Len(s)] \in Whitespace THEN rstrip(SubSeq(s, 1, Len(s) - 1)) ELSE s

\* str.strip()
strip(s) == rstrip(lstrip(s))

\* str.split("\n"): always at least one piece, pieces may be empty
RECURSIVE SplitFrom(_, _, _)
SplitFrom(s, i, cur) ==
    IF i > Len(s) THEN <<cur>>
    ELSE IF s[i] = NL THEN <<cur>> \o SplitFrom(s, i + 1, <<>>)
    ELSE SplitFrom(s, i + 1, Append(cur, s[i]))

split_lines(s) == SplitFrom(s, 1, <<>>)

\* "sep".join(parts)
RECURSIVE join(_, _)
join(sep, parts) ==
    IF parts = <<>> THEN <<>>
    ELSE IF Len(parts) = 1 THEN parts[1]
    ELSE parts[1] \o <<sep>> \o join(sep, Tail(parts))

(***************************************************************************)
(* Uploaded files.  BadB64 is a content string that base64.b64decode       *)
(* rejects; otherwise the decoded bytes are a PDF (its pages' texts), a    *)
(* DOCX (its paragraphs' texts) or plain bytes (their UTF-8 text).         *)
(***************************************************************************)
Pdf(pages)  == [b64 |-> TRUE, fmt |-> "pdf",  parts |-> pages]
Docx(paras) == [b64 |-> TRUE, fmt |-> "docx", parts |-> paras]
Raw(text)   == [b64 |-> TRUE, fmt |-> "raw",  parts |-> <<text>>]
BadB64      == [b64 |-> FALSE, fmt |-> "raw", parts |-> <<>>]

File(n, c) == [name |-> n, content |-> c]

Ok(v)     == [ok |-> TRUE, val |-> v]
Raise(m)  == [ok |-> FALSE, val |-> m]

\* read_pdf: pages in order, a page with no text contributes nothing
RECURSIVE PdfPages(_)
PdfPages(pages) ==
    IF pages = <<>> THEN <<>>
    ELSE (IF Truthy(Head(pages)) THEN Head(pages) \o <<NL>> ELSE <<>>)
         \o PdfPages(Tail(pages))

read_pdf(bytes) ==
    IF bytes.fmt = "pdf" THEN Ok(PdfPages(bytes.parts))
    ELSE Raise("PdfReadError")

\* read_docx: paragraphs joined by newlines
read_docx(bytes) ==
    IF bytes.fmt = "docx" THEN Ok(join(NL, bytes.parts))
    ELSE Raise("PackageNotFoundError")

\* bytes.decode('utf-8', errors='ignore'): never raises; the bytes of a
\* PDF or DOCX container decode to their (non-blank) magic text
decode_utf8(bytes) ==
    IF bytes.fmt = "raw" THEN Ok(bytes.parts[1])
    ELSE IF bytes.fmt = "pdf" THEN Ok(<<"%PDF">>)
    ELSE Ok(<<"PK">>)

PdfNames  == {"a.pdf", "b.pdf", "f.pdf"}
DocxNames == {"c.docx", "d.docx"}

\* name.lower().endswith('.pdf') / ('.docx')
is_pdf(name)  == name \in PdfNames
is_docx(name) == name \in DocxNames

\* a check that rejects only the empty string
IsEmpty(text) == ~Truthy(text)

\* lines 87 and 181: not cv_text.strip()
IsBlank(text) == ~Truthy(strip(text))

\* app.py's "Extract text from file" block
ExtractCv(name, bytes) ==
    IF is_pdf(name) THEN read_pdf(bytes)
    ELSE IF is_docx(name) THEN read_docx(bytes)
    ELSE decode_utf8(bytes)

\* New4.py: read_pdf(cv) if cv.name.endswith(".pdf") else read_docx(cv)
StExtractCv(name, bytes) ==
    IF is_pdf(name) THEN read_pdf(bytes) ELSE read_docx(bytes)

(***************************************************************************)
(* similarity_score: TF-IDF over the two-document corpus, cosine, scaled   *)
(* to 0..100 and rounded to two decimals.  Scores are kept in hundredths   *)
(* (10000 = 100.00).  sklearn's smoothed idf is ln(3 / (1 + df)) + 1: 1    *)
(* for a term of both documents, 1 + ln 1.5 for a term of one; its square  *)
(* is kept in thousandths.                                                 *)
(***************************************************************************)
IdfSqShared == 1000
IdfSqSingle == 1975
ScoreScale  == 10000

\* the analyser: tokens of two or more word characters, minus stop words
IsTerm(tok) == tok \notin Whitespace /\ tok \notin StopWords

Terms(text) == {text[i] : i \in {j \in 1..Len(text) : IsTerm(text[j])}}

Tf(text, t) == Cardinality({i \in 1..Len(text) : text[i] = t})

\* squared tf-idf weight of t in text1, in thousandths
WeightSq(t, text1, text2) ==
    Tf(text1, t) * Tf(text1, t)
      * (IF t \in Terms(text2) THEN IdfSqShared ELSE IdfSqSingle)

\* squared norm of text1's tf-idf vector over the terms S, in thousandths
RECURSIVE NormSq(_, _, _)
NormSq(S, text1, text2) ==
    IF S = {} THEN 0
    ELSE LET t == CHOOSE x \in S : TRUE
         IN WeightSq(t, text1, text2) + NormSq(S \ {t}, text1, text2)

\* dot product of the two tf-idf vectors over the shared terms S (idf = 1)
RECURSIVE Dot(_, _, _)
Dot(S, text1, text2) ==
    IF S = {} THEN 0
    ELSE LET t == CHOOSE x \in S : TRUE
         IN Tf(text1, t) * Tf(text2, t) + Dot(S \ {t}, text1, text2)

RECURSIVE ISqrtIn(_, _, _)
ISqrtIn(x, lo, hi) ==
    IF lo >= hi THEN lo
    ELSE LET mid == (lo + hi + 1) \div 2
         IN IF mid * mid <= x THEN ISqrtIn(x, mid, hi) ELSE ISqrtIn(x, lo, mid - 1)

ISqrt(x) == ISqrtIn(x, 0, 46340)

similarity_score(text1, text2) ==
    LET vocab == Terms(text1) \cup Terms(text2)
        both  == Terms(text1) \cap Terms(text2)
        n1    == NormSq(Terms(text1), text1, text2)
        n2    == NormSq(Terms(text2), text2, text1)
        dot   == Dot(both, text1, text2)
        norm  == ISqrt(n1 * n2)
    IN IF vocab = {} THEN Raise("empty vocabulary")
       ELSE IF dot = 0 THEN Ok(0)
       ELSE Ok((2 * ScoreScale * IdfSqShared * dot + norm) \div (2 * norm))

(***************************************************************************)
(* The LLM gateway.  gw is the sequence of outcomes the remote service     *)
(* gives to the calls of one request, in call order: Ok(text) or           *)
(* Raise(..).  sent is the sequence of prompts sent so far.                *)
(***************************************************************************)
Prompt(k, x, y) == [kind |-> k, a |-> x, b |-> y]

ask_llm(gw, sent) == gw[Len(sent) + 1]

\* the record of one call: the prompt sent and what the service answered
Call(p, r) == [prompt |-> p, reply |-> r]

(***************************************************************************)
(* HTTP responses: jsonify(body), status                                   *)
(***************************************************************************)
Json(code, b) == [status |-> code, body |-> b]
\* an error response that is a bad request whatever went wrong
ErrorAsBadRequest(code, msg) == Json(400, [error |-> msg])

\* jsonify({'error': msg}), code
Error(code, msg) == Json(code, [error |-> msg])

IsError(r) == "error" \in DOMAIN r.body

Outcome(r, sent, store) == [resp |-> r, calls |-> sent, sessions |-> store]

(***************************************************************************)
(* sorted(results, key=lambda x: x["score"], reverse=True): stable, equal  *)
(* scores keep their original order.                                       *)
(***************************************************************************)
\* a sort that puts a result before the earlier results of equal score
RECURSIVE KeepBeforeTiesLast(_, _)
KeepBeforeTiesLast(sorted, r) ==
    IF sorted = <<>> THEN 0
    ELSE IF Head(sorted).score > r.score THEN 1 + KeepBeforeTiesLast(Tail(sorted), r)
    ELSE 0

\* number of leading elements r is placed after: those scoring >= r
RECURSIVE KeepBefore(_, _)
KeepBefore(sorted, r) ==
    IF sorted = <<>> THEN 0
    ELSE IF Head(sorted).score >= r.score THEN 1 + KeepBefore(Tail(sorted), r)
    ELSE 0

InsertAt(s, k, r) == SubSeq(s, 1, k) \o <<r>> \o SubSeq(s, k + 1, Len(s))

RECURSIVE SortInto(_, _)
SortInto(sorted, rest) ==
    IF rest = <<>> THEN sorted
    ELSE SortInto(InsertAt(sorted, KeepBefore(sorted, Head(rest)), Head(rest)),
                  Tail(rest))

sorted_results(results) == SortInto(<<>>, results)

(***************************************************************************)
(* app.py: POST /api/evaluate-cvs                                          *)
(***************************************************************************)
RECURSIVE EvaluateCvsLoop(_, _, _, _, _)
EvaluateCvsLoop(cv_files, jd_text, gw, results, sent) ==
    IF cv_files = <<>>
    THEN Outcome(Json(200, [results |-> sorted_results(results)]), sent, sessions)
    ELSE
      LET cv_file    == Head(cv_files)
          cv_name    == cv_file.name
          bytes      == cv_file.content
          cv_text    == ExtractCv(cv_name, bytes)
          sim_score  == similarity_score(cv_text.val, jd_text)
          prompt     == Prompt("cv-evaluation", cv_text.val, jd_text)
          evaluation == ask_llm(gw, sent)
      IN IF ~bytes.b64
         THEN Outcome(Error(400, <<"Error decoding file", cv_name>>), sent, sessions)
         ELSE IF ~cv_text.ok
         THEN Outcome(Error(500, <<cv_text.val>>), sent, sessions)
         ELSE IF IsBlank(cv_text.val)
         THEN Outcome(Error(400, <<"Could not extract text from", cv_name>>), sent, sessions)
         ELSE IF ~sim_score.ok
         THEN Outcome(Error(500, <<sim_score.val>>), sent, sessions)
         ELSE IF ~evaluation.ok
         THEN Outcome(Error(500, <<evaluation.val>>), Append(sent, Call(prompt, evaluation)), sessions)
         ELSE EvaluateCvsLoop(Tail(cv_files), jd_text, gw,
                Append(results, [name |-> cv_name, score |-> sim_score.val,
                                 evaluation |-> evaluation.val]),
                Append(sent, Call(prompt, evaluation)))

evaluate_cvs_handler(data, gw) ==
    IF ~Truthy(data.cv_files) \/ ~Truthy(strip(data.jd_text))
    THEN Outcome(Error(400, <<"Upload CVs and paste Job Description">>), <<>>, sessions)
    ELSE EvaluateCvsLoop(data.cv_files, data.jd_text, gw, <<>>, <<>>)

(***************************************************************************)
(* The session store: sessions maps the session ids written so far to      *)
(* records holding the fields written so far.                              *)
(***************************************************************************)
Put(f, k, v) == [x \in DOMAIN f \cup {k} |-> IF x = k THEN v ELSE f[x]]

\* dict.get(k, default)
Get(f, k, default) == IF k \in DOMAIN f THEN f[k] ELSE default

EmptyDict == <<>>

\* a write that sets the field in every record of the store
StoreFieldInAll(store, sid, field, value) ==
    [x \in DOMAIN store \cup {sid} |-> Put(Get(store, x, EmptyDict), field, value)]

\* if sid not in sessions: sessions[sid] = {} ; sessions[sid][field] = value
StoreField(store, sid, field, value) ==
    Put(store, sid, Put(Get(store, sid, EmptyDict), field, value))

\* a write that adds to what the field holds
StoreFieldAppend(store, sid, field, value) ==
    Put(store, sid, Put(Get(store, sid, EmptyDict), field,
                        Get(Get(store, sid, EmptyDict), field, <<>>) \o value))

(***************************************************************************)
(* app.py: POST /api/upload-policies                                       *)
(***************************************************************************)
Separator(pdf_name) == <<NL, "--- ", pdf_name, " ---", NL>>

\* a loop that puts each document's block before the earlier ones
RECURSIVE CombinePoliciesNewestFirst(_, _)
CombinePoliciesNewestFirst(policy_files, combined_text) ==
    IF policy_files = <<>> THEN Ok(combined_text)
    ELSE
      LET pdf_file == Head(policy_files)
          pdf_name == pdf_file.name
          bytes    == pdf_file.content
          pdf_text == read_pdf(bytes)
      IN IF ~bytes.b64
         THEN Raise(Error(400, <<"Error decoding file", pdf_name>>))
         ELSE IF ~pdf_text.ok
         THEN Raise(Error(500, <<pdf_text.val>>))
         ELSE CombinePoliciesNewestFirst(Tail(policy_files),
                Separator(pdf_name) \o pdf_text.val \o combined_text)

\* lines 127-141: Ok(combined_text), or the error response of the file
\* the loop stops at
RECURSIVE CombinePolicies(_, _)
CombinePolicies(policy_files, combined_text) ==
    IF policy_files = <<>> THEN Ok(combined_text)
    ELSE
      LET pdf_file == Head(policy_files)
          pdf_name == pdf_file.name
          bytes    == pdf_file.content
          pdf_text == read_pdf(bytes)
      IN IF ~bytes.b64
         THEN Raise(Error(400, <<"Error decoding file", pdf_name>>))
         ELSE IF ~pdf_text.ok
         THEN Raise(Error(500, <<pdf_text.val>>))
         ELSE CombinePolicies(Tail(policy_files),
                combined_text \o Separator(pdf_name) \o pdf_text.val)

\* an upload that adds to the text the session already holds
StorePoliciesAppend(store, session_id, combined_text) ==
    StoreFieldAppend(store, session_id, "policies", combined_text)

\* lines 143-145
StorePolicies(store, session_id, combined_text) ==
    StoreField(store, session_id, "policies", combined_text)

\* a handler that writes the session's text after each document, so that a
\* failing document leaves the text of the documents before it
upload_policies_eager(data) ==
    LET combined == CombinePolicies(data.policy_files, <<>>)
        read     == {n \in 0..Len(data.policy_files) :
                       CombinePolicies(SubSeq(data.policy_files, 1, n), <<>>).ok}
        k        == CHOOSE n \in read : \A m \in read : m <= n
        partial  == CombinePolicies(SubSeq(data.policy_files, 1, k), <<>>).val
    IN IF ~combined.ok
       THEN Outcome(combined.val, <<>>, StorePolicies(sessions, data.session_id, partial))
       ELSE Outcome(Json(200, [success |-> TRUE, count |-> Len(data.policy_files)]),
                    <<>>, StorePolicies(sessions, data.session_id, combined.val))

upload_policies_handler(data) ==
    LET combined == CombinePolicies(data.policy_files, <<>>)
    IN IF ~combined.ok THEN Outcome(combined.val, <<>>, sessions)
       ELSE Outcome(Json(200, [success |-> TRUE, count |-> Len(data.policy_files)]),
                    <<>>, StorePolicies(sessions, data.session_id, combined.val))

(***************************************************************************)
(* app.py: POST /api/generate-questions                                    *)
(***************************************************************************)
DigitTokens == {"1.", "2."}
QTokens     == {"Q2:"}

\* q.strip()[0].isdigit() or q.strip().startswith('Q'), q.strip() not empty
LooksEnumerated(line) == Head(line) \in DigitTokens \/ Head(line) \in QTokens

\* the condition of the list comprehension of line 198
KeepsLine(q) == Truthy(strip(q)) /\ LooksEnumerated(strip(q))

\* [q.strip() for q in lines if KeepsLine(q)]
RECURSIVE StrippedKept(_)
StrippedKept(lines) ==
    IF lines = <<>> THEN <<>>
    ELSE (IF KeepsLine(Head(lines)) THEN <<strip(Head(lines))>> ELSE <<>>)
         \o StrippedKept(Tail(lines))

parse_questions(questions_text) == StrippedKept(split_lines(questions_text))

StoreQuestions(store, session_id, questions_list) ==
    StoreField(store, session_id, "tech_questions", questions_list)

\* data.cv_file is <<>> for a missing or empty cv_file object, else <<file>>
generate_questions_handler(data, gw) ==
    LET cv_file_data   == data.cv_file
        cv_name        == cv_file_data[1].name
        bytes          == cv_file_data[1].content
        cv_text        == ExtractCv(cv_name, bytes)
        prompt         == Prompt("question-generation", cv_text.val, data.jd_text)
        questions_text == ask_llm(gw, <<>>)
        questions_list == parse_questions(questions_text.val)
    IN IF ~Truthy(cv_file_data) \/ ~Truthy(strip(data.jd_text))
       THEN Outcome(Error(400, <<"Upload CV and paste Job Description">>), <<>>, sessions)
       ELSE IF ~bytes.b64
       THEN Outcome(Error(400, <<"Error decoding file", cv_name>>), <<>>, sessions)
       ELSE IF ~cv_text.ok
       THEN Outcome(Error(500, <<cv_text.val>>), <<>>, sessions)
       ELSE IF IsBlank(cv_text.val)
       THEN Outcome(Error(400, <<"Could not extract text from", cv_name>>), <<>>, sessions)
       ELSE IF ~questions_text.ok
       THEN Outcome(Error(500, <<questions_text.val>>), <<Call(prompt, questions_text)>>, sessions)
       ELSE Outcome(Json(200, [questions |-> questions_list]),
                    <<Call(prompt, questions_text)>>,
                    StoreQuestions(sessions, data.session_id, questions_list))

(***************************************************************************)
(* app.py: POST /api/evaluate-answers                                      *)
(***************************************************************************)
PointsPerQuestion == 20

\* one entry of detailed_feedback: "**Q{i} Evaluation:**\n{result}\n\n"
FeedbackEntry(i, result) == [label |-> <<"Q", i, "Evaluation">>, text |-> result]

\* zip(questions, answers): pairs up to the shorter list
Zip(xs, ys) ==
    [i \in 1..(IF Len(xs) <= Len(ys) THEN Len(xs) ELSE Len(ys)) |-> <<xs[i], ys[i]>>]

\* a loop that notes a failed call in the feedback and goes on to the next pair
RECURSIVE GradeLoopSkipping(_, _, _, _, _)
GradeLoopSkipping(pairs, i, gw, detailed_feedback, sent) ==
    IF i > Len(pairs) THEN Ok([feedback |-> detailed_feedback, calls |-> sent])
    ELSE
      LET eval_prompt == Prompt("answer-grading", pairs[i][1], pairs[i][2])
          result      == ask_llm(gw, sent)
      IN GradeLoopSkipping(pairs, i + 1, gw,
           Append(detailed_feedback, FeedbackEntry(i, result.val)),
           Append(sent, Call(eval_prompt, result)))

RECURSIVE GradeLoop(_, _, _, _, _)
GradeLoop(pairs, i, gw, detailed_feedback, sent) ==
    IF i > Len(pairs) THEN Ok([feedback |-> detailed_feedback, calls |-> sent])
    ELSE
      LET eval_prompt == Prompt("answer-grading", pairs[i][1], pairs[i][2])
          result      == ask_llm(gw, sent)
      IN IF ~result.ok
         THEN Raise([error |-> result.val,
                     calls |-> Append(sent, Call(eval_prompt, result))])
         ELSE GradeLoop(pairs, i + 1, gw,
                Append(detailed_feedback, FeedbackEntry(i, result.val)),
                Append(sent, Call(eval_prompt, result)))

\* a total that counts the answers given instead of the questions asked
TotalScoreOfAnswers(questions, answers) ==
    Cardinality({i \in 1..Len(answers) : Truthy(strip(answers[i]))}) * PointsPerQuestion

\* line 235: f"{len(questions) * 20}"
TotalScore(questions, answers) == Len(questions) * PointsPerQuestion

\* a handler that grades the pairs zip yields without comparing the lengths
evaluate_answers_unchecked(data, gw) ==
    LET graded == GradeLoop(Zip(data.questions, data.answers), 1, gw, <<>>, <<>>)
    IN IF ~graded.ok
       THEN Outcome(Error(500, <<graded.val.error>>), graded.val.calls, sessions)
       ELSE Outcome(Json(200, [feedback    |-> graded.val.feedback,
                               total_score |-> TotalScore(data.questions, data.answers)]),
                    graded.val.calls, sessions)

evaluate_answers_handler(data, gw) ==
    LET graded == GradeLoop(Zip(data.questions, data.answers), 1, gw, <<>>, <<>>)
    IN IF Len(data.questions) # Len(data.answers)
       THEN Outcome(Error(400, <<"Questions and answers mismatch">>), <<>>, sessions)
       ELSE IF ~graded.ok
       THEN Outcome(Error(500, <<graded.val.error>>), graded.val.calls, sessions)
       ELSE Outcome(Json(200, [feedback    |-> graded.val.feedback,
                               total_score |-> TotalScore(data.questions, data.answers)]),
                    graded.val.calls, sessions)

(***************************************************************************)
(* app.py: POST /api/ask-policy                                            *)
(***************************************************************************)
NotAvailable == <<"HR policy documents not available. Contact HR.">>

\* a lookup that falls back on the default session's record
StoredPoliciesOrDefault(store, session_id) ==
    Get(Get(store, session_id, Get(store, "default", EmptyDict)), "policies", <<>>)

\* line 250: sessions.get(session_id, {}).get('policies', '')
StoredPolicies(store, session_id) == Get(Get(store, session_id, EmptyDict), "policies", <<>>)

\* a handler that looks the record up with sessions.setdefault(session_id, {})
ask_policy_creating(data, gw) ==
    LET store    == Put(sessions, data.session_id, Get(sessions, data.session_id, EmptyDict))
        policies == StoredPolicies(store, data.session_id)
        prompt   == Prompt("policy-qa", policies, data.question)
        answer   == ask_llm(gw, <<>>)
    IN IF ~Truthy(strip(data.question))
       THEN Outcome(Error(400, <<"Enter a question">>), <<>>, sessions)
       ELSE IF ~Truthy(policies)
       THEN Outcome(Error(400, NotAvailable), <<>>, store)
       ELSE IF ~answer.ok
       THEN Outcome(Error(500, <<answer.val>>), <<Call(prompt, answer)>>, store)
       ELSE Outcome(Json(200, [answer |-> answer.val]), <<Call(prompt, answer)>>, store)

ask_policy_handler(data, gw) ==
    LET policies == StoredPolicies(sessions, data.session_id)
        prompt   == Prompt("policy-qa", policies, data.question)
        answer   == ask_llm(gw, <<>>)
    IN IF ~Truthy(strip(data.question))
       THEN Outcome(Error(400, <<"Enter a question">>), <<>>, sessions)
       ELSE IF ~Truthy(policies)
       THEN Outcome(Error(400, NotAvailable), <<>>, sessions)
       ELSE IF ~answer.ok
       THEN Outcome(Error(500, <<answer.val>>), <<Call(prompt, answer)>>, sessions)
       ELSE Outcome(Json(200, [answer |-> answer.val]), <<Call(prompt, answer)>>, sessions)

(***************************************************************************)
(* New4.py: the Streamlit script.  st is st.session_state; a script run    *)
(* ends by showing a page, kept in resp with status 0: a warning, an       *)
(* uncaught exception, or the output of the branch that ran.               *)
(***************************************************************************)
Page(b) == [status |-> 0, body |-> b]
Warning(msg) == Page([warning |-> msg])
Exception(msg) == Page([exception |-> msg])

StOutcome(r, sent, state) == [resp |-> r, calls |-> sent, st |-> state]

\* lines 75-115: the "Evaluate Candidates" button
RECURSIVE StEvaluateLoop(_, _, _, _, _)
StEvaluateLoop(cv_files, jd_text, gw, results, sent) ==
    IF cv_files = <<>>
    THEN StOutcome(Page([results |-> sorted_results(results)]), sent, st)
    ELSE
      LET cv         == Head(cv_files)
          cv_text    == StExtractCv(cv.name, cv.content)
          sim_score  == similarity_score(cv_text.val, jd_text)
          prompt     == Prompt("cv-evaluation", cv_text.val, jd_text)
          evaluation == ask_llm(gw, sent)
      IN IF ~cv_text.ok THEN StOutcome(Exception(<<cv_text.val>>), sent, st)
         ELSE IF ~sim_score.ok THEN StOutcome(Exception(<<sim_score.val>>), sent, st)
         ELSE IF ~evaluation.ok
         THEN StOutcome(Exception(<<evaluation.val>>),
                        Append(sent, Call(prompt, evaluation)), st)
         ELSE StEvaluateLoop(Tail(cv_files), jd_text, gw,
                Append(results, [name |-> cv.name, score |-> sim_score.val,
                                 evaluation |-> evaluation.val]),
                Append(sent, Call(prompt, evaluation)))

st_evaluate_candidates(data, gw) ==
    IF Truthy(data.cv_files) /\ Truthy(strip(data.jd_text))
    THEN StEvaluateLoop(data.cv_files, data.jd_text, gw, <<>>, <<>>)
    ELSE StOutcome(Warning(<<"Upload CVs and paste Job Description">>), <<>>, st)

\* lines 128-134: the policy uploader holds policy_files
RECURSIVE StCombinePolicies(_, _)
StCombinePolicies(policy_files, combined_text) ==
    IF policy_files = <<>> THEN Ok(combined_text)
    ELSE
      LET pdf      == Head(policy_files)
          pdf_text == read_pdf(pdf.content)
      IN IF ~pdf_text.ok THEN Raise(pdf_text.val)
         ELSE StCombinePolicies(Tail(policy_files),
                combined_text \o Separator(pdf.name) \o pdf_text.val)

st_policy_management(data) ==
    LET combined == StCombinePolicies(data.policy_files, <<>>)
    IN IF ~Truthy(data.policy_files) THEN StOutcome(Page([idle |-> TRUE]), <<>>, st)
       ELSE IF ~combined.ok THEN StOutcome(Exception(<<combined.val>>), <<>>, st)
       ELSE StOutcome(Page([success |-> TRUE, count |-> Len(data.policy_files)]), <<>>,
                      [st EXCEPT !.policies = combined.val])

\* line 170: [q.strip() for q in questions_text.split("\n") if q.strip()]
RECURSIVE StStrippedKept(_)
StStrippedKept(lines) ==
    IF lines = <<>> THEN <<>>
    ELSE (IF Truthy(strip(Head(lines))) THEN <<strip(Head(lines))>> ELSE <<>>)
         \o StStrippedKept(Tail(lines))

st_parse_questions(questions_text) == StStrippedKept(split_lines(questions_text))

\* answers kept from the previous question set
StaleAnswers(questions_list) == st.tech_answers

\* [""] * len(questions_list)
EmptyAnswers(questions_list) == [i \in 1..Len(questions_list) |-> <<>>]

\* lines 149-173: the "Generate Technical Questions" button
st_generate_questions(data, gw) ==
    LET candidate_cv   == data.cv_file
        cv_text        == StExtractCv(candidate_cv[1].name, candidate_cv[1].content)
        prompt         == Prompt("question-generation", cv_text.val, data.jd_text)
        questions_text == ask_llm(gw, <<>>)
        questions_list == st_parse_questions(questions_text.val)
    IN IF ~(Truthy(candidate_cv) /\ Truthy(strip(data.jd_text)))
       THEN StOutcome(Page([idle |-> TRUE]), <<>>, st)
       ELSE IF ~cv_text.ok THEN StOutcome(Exception(<<cv_text.val>>), <<>>, st)
       ELSE IF ~questions_text.ok
       THEN StOutcome(Exception(<<questions_text.val>>),
                      <<Call(prompt, questions_text)>>, st)
       ELSE StOutcome(Page([questions |-> questions_list]),
                      <<Call(prompt, questions_text)>>,
                      [st EXCEPT !.tech_questions = questions_list,
                                 !.tech_answers = EmptyAnswers(questions_list)])

\* lines 183-205: the "Submit Answers" button; answers holds one text area
\* value per displayed question
st_submit_answers(data, gw) ==
    LET graded == GradeLoop(Zip(st.tech_questions, data.answers), 1, gw, <<>>, <<>>)
        total_score == 0
    IN IF ~graded.ok
       THEN StOutcome(Exception(<<graded.val.error>>), graded.val.calls, st)
       ELSE StOutcome(Page([feedback    |-> graded.val.feedback,
                            total_score |-> total_score,
                            out_of      |-> Len(st.tech_questions) * PointsPerQuestion]),
                      graded.val.calls, st)

\* lines 210-234: the employee view
st_ask_policy(data, gw) ==
    LET prompt == Prompt("policy-qa", st.policies, data.question)
        answer == ask_llm(gw, <<>>)
    IN IF ~Truthy(st.policies) THEN StOutcome(Warning(NotAvailable), <<>>, st)
       ELSE IF ~Truthy(strip(data.question))
       THEN StOutcome(Warning(<<"Enter a question">>), <<>>, st)
       ELSE IF ~answer.ok
       THEN StOutcome(Exception(<<answer.val>>), <<Call(prompt, answer)>>, st)
       ELSE StOutcome(Page([answer |-> answer.val]), <<Call(prompt, answer)>>, st)

(***************************************************************************)
(* Inputs                                                                  *)
(***************************************************************************)
FA == File("a.pdf",  Pdf(<< <<"py">> >>))
\* a scanned PDF: one page, no extractable text
FB == File("b.pdf",  Pdf(<< <<>> >>))
FC == File("c.docx", Docx(<< <<"py", "sql">> >>))
\* a DOCX of two empty paragraphs: its text is one newline
FD == File("d.docx", Docx(<< <<>>, <<>> >>))
FE == File("e.txt",  Raw(<<"sql">>))
\* not a PDF, whatever its name says
FF == File("f.pdf",  Raw(<<"junk">>))
FG == File("g.txt",  BadB64)

\* the files of the full specification's requests: a readable PDF, a scanned
\* one, one that fails to parse and one that fails to decode
SomeFiles == {FA, FB, FF, FG}
\* the files of a CV batch
CvFiles == {FA, FB, FC, FD, FE, FF, FG}
\* what st.file_uploader(type=["pdf", "docx"]) accepts
StCvFiles == {FA, FB, FC, FD, FF}
\* what st.file_uploader(type=["pdf"]) accepts
StPolicyFiles == {FA, FB, FF}

Blank == <<" ">>
JdTexts == {Blank, <<"py", "sql">>}

SessionIds == {"default", "s1"}

\* replies of the completion service
ReplyMixed == <<"Sure:", NL, "1.", "py", NL, " ", NL, " ", "Q2:", "sql", " ">>
ReplyPlain == <<"Sure:">>
QuestionReplies == {ReplyMixed, ReplyPlain}
\* the reply to the full specification's generate-questions requests
SomeQuestionReplies == {ReplyMixed}
\* uploads of the full specification whose second document fails
FailingUploads == {<<FA, FF>>, <<FA, FG>>}
TextReplies == {<<"fine">>}
GatewayError == Raise("APIError")

Outcomes(replies) == {Ok(r) : r \in replies} \cup {GatewayError}

Lists(S, n) == UNION {[1..k -> S] : k \in 0..n}

Questions == {<<"1.", "py">>}
Answers   == {<<>>, <<"sql">>}
\* the answer of the full specification's grading requests
SomeAnswers == {<<"sql">>}
PolicyQuestions == {Blank, <<"leave">>}

(***************************************************************************)
(* State: which front end runs, its session store, the latest request,     *)
(* the gateway calls it made and the response it got.  Where requests      *)
(* overlap, threads holds each server thread's position in its handler     *)
(* and ident the dict object bound to each session id (named after the     *)
(* thread that created it).                                                *)
(***************************************************************************)
NoRequest == [op |-> "none"]

\* the threads of the development server that serve overlapping requests
Threads == {1, 2}

Idle == [pc |-> "idle", op |-> "none", session_id |-> "default", val |-> <<>>,
         ref |-> 0, resp |-> Page([idle |-> TRUE]), served |-> 0]

Init ==
    /\ app \in {"app.py", "New4.py"}
    /\ sessions = EmptyDict
    /\ st = [policies |-> <<>>, tech_questions |-> <<>>, tech_answers |-> <<>>]
    /\ req = NoRequest
    /\ calls = <<>>
    /\ resp = Page([idle |-> TRUE])
    /\ threads = [t \in Threads |-> Idle]
    /\ ident = EmptyDict

Request(name, data) == [op |-> name, data |-> data]

\* app.py serves a request: the handler's outcome out becomes the state
Serve(name, data, out) ==
    /\ req' = Request(name, data)
    /\ resp' = out.resp
    /\ calls' = out.calls
    /\ sessions' = out.sessions
    /\ UNCHANGED <<app, st, threads, ident>>

\* New4.py reruns on a widget event
Rerun(name, data, out) ==
    /\ req' = Request(name, data)
    /\ resp' = out.resp
    /\ calls' = out.calls
    /\ st' = out.st
    /\ UNCHANGED <<app, sessions, threads, ident>>

evaluate_cvs(data, gw) ==
    /\ app = "app.py"
    /\ Serve("evaluate-cvs", data, evaluate_cvs_handler(data, gw))

upload_policies(data) ==
    /\ app = "app.py"
    /\ Serve("upload-policies", data, upload_policies_handler(data))

generate_questions(data, gw) ==
    /\ app = "app.py"
    /\ Serve("generate-questions", data, generate_questions_handler(data, gw))

evaluate_answers(data, gw) ==
    /\ app = "app.py"
    /\ Serve("evaluate-answers", data, evaluate_answers_handler(data, gw))

ask_policy(data, gw) ==
    /\ app = "app.py"
    /\ Serve("ask-policy", data, ask_policy_handler(data, gw))

StEvaluate(data, gw) ==
    /\ app = "New4.py"
    /\ Rerun("evaluate-cvs", data, st_evaluate_candidates(data, gw))

StUpload(data) ==
    /\ app = "New4.py"
    /\ Rerun("upload-policies", data, st_policy_management(data))

StGenerate(data, gw) ==
    /\ app = "New4.py"
    /\ Rerun("generate-questions", data, st_generate_questions(data, gw))

\* line 176: the answer boxes and the button exist only with questions
StSubmit(data, gw) ==
    /\ app = "New4.py"
    /\ Truthy(st.tech_questions)
    /\ Len(data.answers) = Len(st.tech_questions)
    /\ Rerun("evaluate-answers", data, st_submit_answers(data, gw))

StAsk(data, gw) ==
    /\ app = "New4.py"
    /\ Rerun("ask-policy", data, st_ask_policy(data, gw))

(***************************************************************************)
(* The full specification: every operation of both front ends              *)
(***************************************************************************)
\* the gateway answers reply to every call but the fail_at-th, which fails
Gateway(n, reply, fail_at) ==
    [i \in 1..n |-> IF i = fail_at THEN GatewayError ELSE Ok(reply)]

Gateways(n, replies) == {Gateway(n, r, k) : r \in replies, k \in 0..n}

EvaluateCvs ==
    \E cv_files \in Lists(SomeFiles, MaxFiles), jd_text \in JdTexts,
       gw \in Gateways(MaxFiles, TextReplies) :
        evaluate_cvs([jd_text |-> jd_text, cv_files |-> cv_files], gw)

UploadPolicies ==
    \E policy_files \in Lists(SomeFiles, MaxFiles) \cup FailingUploads,
       session_id \in SessionIds :
        upload_policies([policy_files |-> policy_files, session_id |-> session_id])

GenerateQuestions ==
    \E cv_file \in Lists(SomeFiles, 1), jd_text \in JdTexts, session_id \in SessionIds,
       gw \in Gateways(1, SomeQuestionReplies) :
        generate_questions([cv_file |-> cv_file, jd_text |-> jd_text,
                            session_id |-> session_id], gw)

EvaluateAnswers ==
    \E questions \in Lists(Questions, MaxQA), answers \in Lists(SomeAnswers, MaxQA),
       gw \in Gateways(MaxQA, TextReplies) :
        evaluate_answers([questions |-> questions, answers |-> answers], gw)

AskPolicy ==
    \E question \in PolicyQuestions, session_id \in SessionIds,
       gw \in Gateways(1, TextReplies) :
        ask_policy([question |-> question, session_id |-> session_id], gw)

StEvaluateCandidates ==
    \E cv_files \in Lists(StCvFiles, MaxFiles), jd_text \in JdTexts,
       gw \in Gateways(MaxFiles, TextReplies) :
        StEvaluate([jd_text |-> jd_text, cv_files |-> cv_files], gw)

StPolicyManagement ==
    \E policy_files \in Lists(StPolicyFiles, MaxFiles) :
        StUpload([policy_files |-> policy_files])

StGenerateQuestions ==
    \E cv_file \in Lists(StCvFiles, 1), jd_text \in JdTexts,
       gw \in Gateways(1, QuestionReplies) :
        StGenerate([cv_file |-> cv_file, jd_text |-> jd_text], gw)

StSubmitAnswers ==
    \E answers \in Lists(Answers, Len(st.tech_questions)),
       gw \in Gateways(Len(st.tech_questions), TextReplies) :
        StSubmit([answers |-> answers], gw)

StAskPolicy ==
    \E question \in PolicyQuestions, gw \in Gateways(1, TextReplies) :
        StAsk([question |-> question], gw)

Next ==
    \/ EvaluateCvs
    \/ UploadPolicies
    \/ GenerateQuestions
    \/ EvaluateAnswers
    \/ AskPolicy
    \/ StEvaluateCandidates
    \/ StPolicyManagement
    \/ StGenerateQuestions
    \/ StSubmitAnswers
    \/ StAskPolicy

Spec == Init /\ [][Next]_vars

(***************************************************************************)
(* CV evaluation alone: a fresh process serves one batch.  The endpoint    *)
(* reads and writes no session state, so one request from the initial      *)
(* state shows all it can do.                                              *)
(***************************************************************************)
EvalReplies == {<<"fit">>, <<"unfit">>}

EvaluateCvBatch ==
    /\ req = NoRequest
    /\ \E cv_files \in Lists(CvFiles, MaxCvs), jd_text \in JdTexts,
          gw \in [1..MaxCvs -> Outcomes(EvalReplies)] :
           evaluate_cvs([jd_text |-> jd_text, cv_files |-> cv_files], gw)

StEvaluateCvBatch ==
    /\ req = NoRequest
    /\ \E cv_files \in Lists(StCvFiles, MaxCvs), jd_text \in JdTexts,
          gw \in [1..MaxCvs -> Outcomes(EvalReplies)] :
           StEvaluate([jd_text |-> jd_text, cv_files |-> cv_files], gw)

NextCv == EvaluateCvBatch \/ StEvaluateCvBatch

SpecCv == Init /\ [][NextCv]_vars

(***************************************************************************)
(* Answer grading alone: app.py grades the lists of one request; New4.py   *)
(* grades the answers typed under the questions it generated.              *)
(***************************************************************************)
GradedQuestions == {<<"1.", "py">>, <<"Q2:", "sql">>}
GradeReplies == {<<"18">>, <<"3">>}

GradeAnswers ==
    /\ req = NoRequest
    /\ \E questions \in Lists(GradedQuestions, MaxQA), answers \in Lists(Answers, MaxQA),
          gw \in [1..MaxQA -> Outcomes(GradeReplies)] :
           evaluate_answers([questions |-> questions, answers |-> answers], gw)

StGenerateForGrading ==
    /\ req = NoRequest
    /\ \E gw \in Gateways(1, QuestionReplies) :
           StGenerate([cv_file |-> <<FA>>, jd_text |-> <<"py", "sql">>], gw)

StGradeAnswers ==
    /\ req.op = "generate-questions"
    /\ \E answers \in Lists(Answers, Len(st.tech_questions)),
          gw \in [1..Len(st.tech_questions) -> Outcomes(GradeReplies)] :
           StSubmit([answers |-> answers], gw)

NextGrade == GradeAnswers \/ StGenerateForGrading \/ StGradeAnswers

SpecGrade == Init /\ [][NextGrade]_vars

(***************************************************************************)
(* similarity_score alone: a fresh process scores one pair of texts,       *)
(* directly and as the CV and the job description of a one-document batch. *)
(***************************************************************************)
SimTokens == {"the", " ", "py"}
SimTexts == Lists(SimTokens, MaxLen)

Score ==
    /\ req = NoRequest
    /\ \E text1 \in SimTexts, text2 \in SimTexts :
          /\ req' = Request("similarity_score", [text1 |-> text1, text2 |-> text2])
          /\ resp' = Page([score |-> similarity_score(text1, text2)])
          /\ UNCHANGED <<app, sessions, st, calls, threads, ident>>

\* app.py takes any name; a name without .pdf or .docx is read as text
ScoreCv ==
    /\ req = NoRequest
    /\ \E text1 \in SimTexts, text2 \in SimTexts :
          evaluate_cvs([jd_text |-> text2, cv_files |-> <<File("e.txt", Raw(text1))>>],
                       <<Ok(<<"fit">>)>>)

\* New4.py's uploader takes PDF and DOCX: the text is a DOCX paragraph
StScoreCv ==
    /\ req = NoRequest
    /\ \E text1 \in SimTexts, text2 \in SimTexts :
          StEvaluate([jd_text |-> text2, cv_files |-> <<File("c.docx", Docx(<<text1>>))>>],
                     <<Ok(<<"fit">>)>>)

NextSim == Score \/ ScoreCv \/ StScoreCv

SpecSim == Init /\ [][NextSim]_vars

(***************************************************************************)
(* Policy upload alone: a fresh process takes one list of documents.       *)
(***************************************************************************)
UploadPolicyBatch ==
    /\ req = NoRequest
    /\ \E policy_files \in Lists(SomeFiles, MaxPolicies), session_id \in SessionIds :
          upload_policies([policy_files |-> policy_files, session_id |-> session_id])

StUploadPolicyBatch ==
    /\ req = NoRequest
    /\ \E policy_files \in Lists(StPolicyFiles, MaxPolicies) :
          StUpload([policy_files |-> policy_files])

NextUpload == UploadPolicyBatch \/ StUploadPolicyBatch

SpecUpload == Init /\ [][NextUpload]_vars

(***************************************************************************)
(* Overlapping requests.  app.run() serves each request on a thread of its *)
(* own, and the handlers share sessions with no lock.  A writing handler   *)
(* first does its own work (extraction, the gateway call), then runs       *)
(*     if session_id not in sessions:        check_session                 *)
(*         sessions[session_id] = {}         create_session                *)
(*     sessions[session_id][field] = value   load_session, store_field     *)
(* and another thread may run between any two of these steps.  The last    *)
(* statement reads the dict bound to the id and then stores into that      *)
(* dict: if the id was bound to a new dict in between, the store goes to   *)
(* the dict nobody can reach any more.                                     *)
(***************************************************************************)
RaceUploads == {<<FA>>, <<FB>>}

FieldOf(op) == IF op = "upload-policies" THEN "policies" ELSE "tech_questions"

\* the thread's handler returns r
Returns(t, name, session_id, r) ==
    [threads[t] EXCEPT !.pc = "idle", !.op = name, !.session_id = session_id,
                       !.val = <<>>, !.ref = 0, !.resp = r, !.served = @ + 1]

\* the thread's handler has value to store and will return r
Reaches(t, name, session_id, value, r) ==
    [threads[t] EXCEPT !.pc = "check", !.op = name, !.session_id = session_id,
                       !.val = value, !.ref = 0, !.resp = r]

\* upload_policies up to line 141
begin_upload(t, data) ==
    /\ app = "app.py"
    /\ threads[t].pc = "idle"
    /\ threads[t].served < MaxServed
    /\ LET combined == CombinePolicies(data.policy_files, <<>>)
           out      == upload_policies_handler(data)
       IN threads' = [threads EXCEPT ![t] =
            IF ~combined.ok
            THEN Returns(t, "upload-policies", data.session_id, out.resp)
            ELSE Reaches(t, "upload-policies", data.session_id, combined.val, out.resp)]
    /\ UNCHANGED <<app, sessions, st, req, calls, resp, ident>>

\* generate_questions up to line 198
begin_generate(t, data, gw) ==
    /\ app = "app.py"
    /\ threads[t].pc = "idle"
    /\ threads[t].served < MaxServed
    /\ LET out == generate_questions_handler(data, gw)
       IN threads' = [threads EXCEPT ![t] =
            IF IsError(out.resp)
            THEN Returns(t, "generate-questions", data.session_id, out.resp)
            ELSE Reaches(t, "generate-questions", data.session_id,
                         out.resp.body.questions, out.resp)]
    /\ UNCHANGED <<app, sessions, st, req, calls, resp, ident>>

\* a creation that keeps the record another thread made meanwhile
CreatedKeeping(store, session_id) == Put(store, session_id, Get(store, session_id, EmptyDict))

\* line 144 / 201: sessions[session_id] = {}
Created(store, session_id) == Put(store, session_id, EmptyDict)

\* a store that reaches the record bound to the id whatever dict was read
StoredAnyway(store, session_id, field, value, reached) ==
    Put(store, session_id, Put(store[session_id], field, value))

\* line 145 / 202: the item assignment into the dict that was read
Stored(store, session_id, field, value, reached) ==
    IF reached THEN Put(store, session_id, Put(store[session_id], field, value))
    ELSE store

\* line 143 / 200: if session_id not in sessions
check_session(t) ==
    /\ threads[t].pc = "check"
    /\ threads' = [threads EXCEPT ![t].pc =
                     IF threads[t].session_id \in DOMAIN sessions THEN "load" ELSE "create"]
    /\ UNCHANGED <<app, sessions, st, req, calls, resp, ident>>

create_session(t) ==
    /\ threads[t].pc = "create"
    /\ sessions' = Created(sessions, threads[t].session_id)
    /\ ident' = Put(ident, threads[t].session_id, t)
    /\ threads' = [threads EXCEPT ![t].pc = "load"]
    /\ UNCHANGED <<app, st, req, calls, resp>>

\* line 145 / 202, first half: sessions[session_id]
load_session(t) ==
    /\ threads[t].pc = "load"
    /\ threads' = [threads EXCEPT ![t].pc = "store",
                                  ![t].ref = ident[threads[t].session_id]]
    /\ UNCHANGED <<app, sessions, st, req, calls, resp, ident>>

\* line 145 / 202, second half, and the return of line 147 / 204
store_field(t) ==
    /\ threads[t].pc = "store"
    /\ sessions' = Stored(sessions, threads[t].session_id, FieldOf(threads[t].op),
                          threads[t].val, threads[t].ref = ident[threads[t].session_id])
    /\ threads' = [threads EXCEPT ![t].pc = "idle", ![t].served = @ + 1]
    /\ UNCHANGED <<app, st, req, calls, resp, ident>>

BeginUpload ==
    \E t \in Threads, policy_files \in RaceUploads, session_id \in SessionIds :
        begin_upload(t, [policy_files |-> policy_files, session_id |-> session_id])

BeginGenerate ==
    \E t \in Threads, session_id \in SessionIds, gw \in Gateways(1, SomeQuestionReplies) :
        begin_generate(t, [cv_file |-> <<FA>>, jd_text |-> <<"py", "sql">>,
                           session_id |-> session_id], gw)

CheckSession  == \E t \in Threads : check_session(t)
CreateSession == \E t \in Threads : create_session(t)
LoadSession   == \E t \in Threads : load_session(t)
StoreInSession == \E t \in Threads : store_field(t)

NextRace ==
    \/ BeginUpload
    \/ BeginGenerate
    \/ CheckSession
    \/ CreateSession
    \/ LoadSession
    \/ StoreInSession

SpecRace == Init /\ [][NextRace]_vars

(***************************************************************************)
(* Properties                                                              *)
(***************************************************************************)
Served(name) == app = "app.py" /\ req.op = name
Ran(name)    == app = "New4.py" /\ req.op = name

\* C1: evaluate-answers answers a request whose questions and answers differ
\* in number with an error, and calls the gateway for no pair of it.
C1_MismatchRejected ==
    (Served("evaluate-answers") /\ Len(req.data.questions) # Len(req.data.answers))
        => /\ resp.status = 400
           /\ DOMAIN resp.body = {"error"}
           /\ calls = <<>>

\* two questions and one answer: the first pair lines up and is not graded
C1_Witness ==
    /\ Served("evaluate-answers")
    /\ Len(req.data.questions) = 2
    /\ Len(req.data.answers) = 1
    /\ resp = Error(400, <<"Questions and answers mismatch">>)

\* the documents of the latest CV batch, and what each contributes
BatchFiles == req.data.cv_files

ExtractedText(file) ==
    IF app = "app.py" THEN ExtractCv(file.name, file.content).val
    ELSE StExtractCv(file.name, file.content).val

PerDocument(i) ==
    [name       |-> BatchFiles[i].name,
     score      |-> similarity_score(ExtractedText(BatchFiles[i]), req.data.jd_text).val,
     evaluation |-> calls[i].reply.val]

Orderings(n) ==
    {p \in [1..n -> 1..n] : \A i, j \in 1..n : p[i] = p[j] => i = j}

BatchSucceeded == req.op = "evaluate-cvs" /\ "results" \in DOMAIN resp.body

\* C2: the results of a successful batch are the per-document results,
\* rearranged so that scores never increase and so that documents of equal
\* score stay in upload order.
C2_SortedStable ==
    BatchSucceeded =>
        LET results == resp.body.results
            n       == Len(BatchFiles)
        IN /\ Len(results) = n
           /\ Len(calls) = n
           /\ \E p \in Orderings(n) :
                /\ \A i \in 1..n : results[i] = PerDocument(p[i])
                /\ \A i, j \in 1..n :
                     i < j => /\ results[i].score >= results[j].score
                              /\ results[i].score = results[j].score => p[i] < p[j]

\* three documents, the lower-scoring tie first in the upload, the best last
C2_Witness ==
    /\ BatchSucceeded
    /\ Len(resp.body.results) = 3
    /\ resp.body.results[1].name = BatchFiles[3].name
    /\ resp.body.results[2].name = BatchFiles[1].name
    /\ resp.body.results[3].name = BatchFiles[2].name
    /\ resp.body.results[2].score = resp.body.results[3].score
    /\ resp.body.results[1].score > resp.body.results[2].score
    /\ resp.body.results[2].name # resp.body.results[3].name

\* the extractor raises on the document, or yields only whitespace
ExtractionFails(file) ==
    /\ file.content.b64
    /\ LET text == ExtractCv(file.name, file.content)
       IN ~text.ok \/ \A i \in 1..Len(text.val) : text.val[i] \in Whitespace

\* C3: when extraction fails for a document of an evaluate-cvs batch, the
\* response is an error without results, whatever was evaluated before it.
C3_ExtractionAborts ==
    (Served("evaluate-cvs") /\ \E i \in 1..Len(BatchFiles) : ExtractionFails(BatchFiles[i]))
        => /\ resp.status \in {400, 500}
           /\ DOMAIN resp.body = {"error"}

\* the second document is whitespace only, after the first was evaluated
C3_Witness ==
    /\ Served("evaluate-cvs")
    /\ Len(BatchFiles) = 2
    /\ ~ExtractionFails(BatchFiles[1])
    /\ ExtractionFails(BatchFiles[2])
    /\ ExtractCv(BatchFiles[2].name, BatchFiles[2].content).ok
    /\ Len(calls) = 1
    /\ calls[1].reply.ok
    /\ resp = Error(400, <<"Could not extract text from", BatchFiles[2].name>>)

\* the text one upload amounts to: a separator block and the extracted text
\* per document, in upload order
RECURSIVE UploadText(_)
UploadText(files) ==
    IF files = <<>> THEN <<>>
    ELSE UploadText(SubSeq(files, 1, Len(files) - 1))
         \o Separator(files[Len(files)].name)
         \o read_pdf(files[Len(files)].content).val

UploadSucceeded == req.op = "upload-policies" /\ "success" \in DOMAIN resp.body

\* the policy text the front end holds for the latest request's session
HeldPolicies ==
    IF app = "New4.py" THEN st.policies
    ELSE IF req.data.session_id \notin DOMAIN sessions THEN <<>>
    ELSE IF "policies" \notin DOMAIN sessions[req.data.session_id] THEN <<>>
    ELSE sessions[req.data.session_id].policies

\* C4: once an upload succeeds, the session's policy text is the text of
\* that upload alone, whatever the session held before.
C4_UploadReplaces ==
    UploadSucceeded => HeldPolicies = UploadText(req.data.policy_files)

\* an upload of one readable document on a session that also holds questions
C4_Witness ==
    /\ Served("upload-policies")
    /\ UploadSucceeded
    /\ req.data.policy_files = <<FA>>
    /\ DOMAIN sessions[req.data.session_id] = {"policies", "tech_questions"}
    /\ sessions[req.data.session_id].policies = Separator("a.pdf") \o <<"py", NL>>

NonBlank(text) == \E i \in 1..Len(text) : text[i] \notin Whitespace

\* C5: a non-blank policy question on a session without policy text fails
\* with the contact-HR message and no gateway call; with policy text the
\* gateway is called exactly once, with that text.
C5_PolicyQuestion ==
    (req.op = "ask-policy" /\ NonBlank(req.data.question))
        => IF HeldPolicies = <<>>
           THEN /\ calls = <<>>
                /\ resp.body \in {[error |-> NotAvailable], [warning |-> NotAvailable]}
                /\ app = "app.py" => resp.status = 400
           ELSE /\ Len(calls) = 1
                /\ calls[1].prompt = Prompt("policy-qa", HeldPolicies, req.data.question)

\* the session exists and has questions, but no policies field
C5_Witness ==
    /\ Served("ask-policy")
    /\ NonBlank(req.data.question)
    /\ req.data.session_id \in DOMAIN sessions
    /\ "policies" \notin DOMAIN sessions[req.data.session_id]
    /\ resp = Error(400, NotAvailable)
    /\ calls = <<>>

\* a line as the claim reads it: trimmed, and judged by its first character
FirstInk(line) == CHOOSE i \in 1..Len(line) :
    line[i] \notin Whitespace /\ \A j \in 1..(i - 1) : line[j] \in Whitespace

LastInk(line) == CHOOSE i \in 1..Len(line) :
    line[i] \notin Whitespace /\ \A j \in (i + 1)..Len(line) : line[j] \in Whitespace

Trimmed(line) == SubSeq(line, FirstInk(line), LastInk(line))

Enumerated(line) ==
    NonBlank(line) /\ line[FirstInk(line)] \in DigitTokens \cup QTokens

\* the k-th line of lines that is enumerated
NthEnumerated(lines, k) ==
    CHOOSE j \in 1..Len(lines) :
        /\ Enumerated(lines[j])
        /\ Cardinality({m \in 1..(j - 1) : Enumerated(lines[m])}) = k - 1

GenerationSucceeded == req.op = "generate-questions" /\ "questions" \in DOMAIN resp.body

HeldQuestions ==
    IF app = "New4.py" THEN st.tech_questions
    ELSE sessions[req.data.session_id].tech_questions

\* C6: the question set stored after a generation is the enumerated lines
\* of the gateway's response, trimmed, in response order, and nothing else.
C6_OnlyEnumeratedLines ==
    GenerationSucceeded =>
        LET lines == split_lines(calls[1].reply.val)
            count == Cardinality({j \in 1..Len(lines) : Enumerated(lines[j])})
        IN /\ Len(HeldQuestions) = count
           /\ \A k \in 1..count :
                HeldQuestions[k] = Trimmed(lines[NthEnumerated(lines, k)])
           /\ app = "app.py" => resp.body.questions = HeldQuestions

\* C6 for the Flask front end alone
C6_FlaskOnlyEnumeratedLines == app = "app.py" => C6_OnlyEnumeratedLines

\* C7 as claimed: whatever holds a question set holds as many answers
C7_AnswersMatchQuestions ==
    /\ app = "New4.py" => Len(st.tech_answers) = Len(st.tech_questions)
    /\ \A sid \in DOMAIN sessions :
         "tech_questions" \in DOMAIN sessions[sid]
            => /\ "tech_answers" \in DOMAIN sessions[sid]
               /\ Len(sessions[sid].tech_answers) = Len(sessions[sid].tech_questions)

\* C7 amended: New4.py's session state always holds one answer per question,
\* each the empty string; a session record of app.py holds no answers.
C7_StreamlitAnswersMatch ==
    /\ app = "New4.py" =>
         /\ Len(st.tech_answers) = Len(st.tech_questions)
         /\ \A i \in 1..Len(st.tech_answers) : st.tech_answers[i] = <<>>
    /\ \A sid \in DOMAIN sessions :
         DOMAIN sessions[sid] \subseteq {"policies", "tech_questions"}

\* three questions generated, then answers submitted and graded
C7_Witness ==
    /\ Ran("evaluate-answers")
    /\ Len(st.tech_questions) = 3
    /\ Len(st.tech_answers) = 3
    /\ \E i \in 1..Len(req.data.answers) : req.data.answers[i] # <<>>
    /\ "feedback" \in DOMAIN resp.body

GradingCompleted == req.op = "evaluate-answers" /\ "feedback" \in DOMAIN resp.body

GradedList == IF app = "New4.py" THEN st.tech_questions ELSE req.data.questions

\* C8: a grading of N questions and N answers that completes reports N x 20
\* as the total (app.py as total_score, New4.py as the total a score of 0
\* is out of), after one gateway call per pair and with one feedback entry
\* per pair, labelled Q1..QN, holding that call's reply.
C8_TotalIsMaximum ==
    GradingCompleted =>
        LET n == Len(GradedList)
        IN /\ Len(req.data.answers) = n
           /\ app = "app.py" => resp.body.total_score = n * 20
           /\ app = "New4.py" => resp.body.out_of = n * 20 /\ resp.body.total_score = 0
           /\ Len(calls) = n
           /\ Len(resp.body.feedback) = n
           /\ \A i \in 1..n :
                /\ calls[i].prompt =
                     Prompt("answer-grading", GradedList[i], req.data.answers[i])
                /\ resp.body.feedback[i] =
                     [label |-> <<"Q", i, "Evaluation">>, text |-> calls[i].reply.val]

\* two blank answers, graded differently by the gateway
C8_Witness ==
    /\ Served("evaluate-answers")
    /\ GradingCompleted
    /\ req.data.answers = << <<>>, <<>> >>
    /\ calls[1].reply # calls[2].reply
    /\ resp.body.total_score = 40

\* a request without its files or with blank required text
Invalid(r) ==
    \/ r.op = "evaluate-cvs" /\ (r.data.cv_files = <<>> \/ ~NonBlank(r.data.jd_text))
    \/ r.op = "upload-policies" /\ r.data.policy_files = <<>>
    \/ r.op = "generate-questions" /\ (r.data.cv_file = <<>> \/ ~NonBlank(r.data.jd_text))
    \/ r.op = "ask-policy" /\ ~NonBlank(r.data.question)

\* C9: app.py answers an invalid request with a validation error, calls the
\* gateway for nothing and leaves the session store as it was.
C9_InvalidNotAttempted ==
    [][(app = "app.py" /\ Invalid(req'))
          => /\ resp'.status = 400
             /\ DOMAIN resp'.body = {"error"}
             /\ calls' = <<>>
             /\ sessions' = sessions]_vars

\* the documents the latest request asks to extract
RequestFiles ==
    IF req.op = "evaluate-cvs" THEN req.data.cv_files
    ELSE IF req.op = "upload-policies" THEN req.data.policy_files
    ELSE IF req.op = "generate-questions" THEN req.data.cv_file
    ELSE <<>>

ExtractsNothing(file) ==
    /\ file.content.b64
    /\ LET text == IF req.op = "upload-policies" THEN read_pdf(file.content)
                   ELSE ExtractCv(file.name, file.content)
       IN text.ok /\ text.val = <<>>

\* C10: a request of app.py holding a document whose extraction is empty
\* ends in an error
C10_EmptyExtractionRejected ==
    (app = "app.py" /\ \E i \in 1..Len(RequestFiles) : ExtractsNothing(RequestFiles[i]))
        => DOMAIN resp.body = {"error"}

\* the keys of the success body of each endpoint
SuccessKeys(op) ==
    CASE op = "evaluate-cvs"       -> {"results"}
      [] op = "upload-policies"    -> {"success", "count"}
      [] op = "generate-questions" -> {"questions"}
      [] op = "evaluate-answers"   -> {"feedback", "total_score"}
      [] op = "ask-policy"         -> {"answer"}

\* why a document stops a request: an upload that does not decode and a CV
\* with no text are validation failures, an extractor or vectoriser that
\* raises is an exception
FileFailure(r, file) ==
    LET text == IF r.op = "upload-policies" THEN read_pdf(file.content)
                ELSE ExtractCv(file.name, file.content)
    IN IF ~file.content.b64 THEN "validation"
       ELSE IF ~text.ok THEN "exception"
       ELSE IF r.op = "upload-policies" THEN "none"
       ELSE IF ~NonBlank(text.val) THEN "validation"
       ELSE IF r.op = "evaluate-cvs" /\ ~similarity_score(text.val, r.data.jd_text).ok
       THEN "exception"
       ELSE "none"

\* the i-th gateway call of the request failed
CallFailed(sent, i) == i <= Len(sent) /\ ~sent[i].reply.ok

\* the first failure met when the documents are taken in order, each
\* followed by its gateway call when the endpoint makes one
RECURSIVE FirstFailure(_, _, _, _)
FirstFailure(r, files, sent, i) ==
    IF i > Len(files) THEN "none"
    ELSE IF FileFailure(r, files[i]) # "none" THEN FileFailure(r, files[i])
    ELSE IF CallFailed(sent, i) THEN "exception"
    ELSE FirstFailure(r, files, sent, i + 1)

\* what makes request r fail, given the store it met and the calls it made
Cause(r, store, sent) ==
    IF r.op = "evaluate-answers"
    THEN IF Len(r.data.questions) # Len(r.data.answers) THEN "validation"
         ELSE IF \E i \in 1..Len(sent) : CallFailed(sent, i) THEN "exception"
         ELSE "none"
    ELSE IF r.op = "ask-policy"
    THEN IF ~NonBlank(r.data.question) THEN "validation"
         ELSE IF ~Truthy(Get(Get(store, r.data.session_id, EmptyDict), "policies", <<>>))
         THEN "validation"
         ELSE IF CallFailed(sent, 1) THEN "exception"
         ELSE "none"
    ELSE IF r.op # "upload-policies" /\ Invalid(r) THEN "validation"
    ELSE LET files == IF r.op = "evaluate-cvs" THEN r.data.cv_files
                      ELSE IF r.op = "upload-policies" THEN r.data.policy_files
                      ELSE r.data.cv_file
         IN FirstFailure(r, files, sent, 1)

\* C11: every response of app.py is the success body of its endpoint with
\* status 200, or a body {error} whose status is 400 when a validation
\* failure stopped the request and 500 when an exception did.
C11_ErrorContract ==
    [][app = "app.py"
         => \/ /\ resp'.status = 200
               /\ DOMAIN resp'.body = SuccessKeys(req'.op)
            \/ /\ resp'.status = 400
               /\ DOMAIN resp'.body = {"error"}
               /\ Cause(req', sessions, calls') = "validation"
            \/ /\ resp'.status = 500
               /\ DOMAIN resp'.body = {"error"}
               /\ Cause(req', sessions, calls') = "exception"]_vars

\* a question generation stopped by a file that is not the PDF it is named
C11_Witness ==
    /\ Served("generate-questions")
    /\ req.data.cv_file = <<FF>>
    /\ NonBlank(req.data.jd_text)
    /\ resp = Error(500, <<"PdfReadError">>)

\* a text with nothing for the vectoriser: empty, blank or stop words only
Degenerate(text) == \A i \in 1..Len(text) : ~IsTerm(text[i])

\* C12: similarity_score gives 0.0 and raises nothing when either text is
\* empty or holds only stop words, and no CV evaluation fails on such a pair.
C12_DegenerateScoresZero ==
    /\ (req.op = "similarity_score"
          /\ (Degenerate(req.data.text1) \/ Degenerate(req.data.text2)))
        => resp.body.score = Ok(0)
    /\ (req.op = "evaluate-cvs" /\ NonBlank(req.data.jd_text)
          /\ NonBlank(req.data.cv_files[1].content.parts[1]))
        => DOMAIN resp.body = {"results"}

\* what the code does give: 0.0 when exactly one of the texts is degenerate
C12_OneSidedScoresZero ==
    (req.op = "similarity_score"
       /\ Degenerate(req.data.text1) # Degenerate(req.data.text2))
        => resp.body.score = Ok(0)

\* thread t takes the step from position from to position to
Steps(t, from, to) == threads[t].pc = from /\ threads'[t].pc = to

\* thread t has returned 200 from a request name on session s
Succeeded(t, name, s) ==
    /\ threads[t].pc = "idle"
    /\ threads[t].op = name
    /\ threads[t].session_id = s
    /\ threads[t].resp.status = 200

\* C13: nothing guards the session map.  A thread that saw the id absent
\* binds it to an empty record whatever another thread stored there since;
\* a thread whose record was replaced after it read it stores into the
\* replaced one and the store keeps nothing of it; both return success.
C13_RacingWritesLost ==
    [][\A t \in Threads :
         LET s == threads[t].session_id
         IN /\ Steps(t, "create", "load") => sessions'[s] = EmptyDict
            /\ Steps(t, "store", "idle")
                 => /\ threads'[t].resp.status = 200
                    /\ DOMAIN threads'[t].resp.body \in {{"success", "count"}, {"questions"}}
                    /\ threads[t].ref # ident[s] => sessions' = sessions]_vars

\* one upload and one generation on the same id, nothing else served: both
\* returned success and the record holds the questions but no policy text
C13_Witness ==
    /\ \A t \in Threads : threads[t].served = 1
    /\ Succeeded(1, "upload-policies", "default")
    /\ Succeeded(2, "generate-questions", "default")
    /\ DOMAIN sessions["default"] = {"tech_questions"}

\* the field of session s, <<value>> when present and <<>> when absent
Held(store, s, field) ==
    IF s \in DOMAIN store /\ field \in DOMAIN store[s] THEN <<store[s][field]>> ELSE <<>>

\* C14: whatever the interleaving, no step of an upload-policies request
\* changes the question set of any session and no step of a
\* generate-questions request changes the policy text of any session.
C14_FrameUnderInterleaving ==
    [][\A t \in Threads : \A s \in SessionIds :
         threads'[t] # threads[t]
           => /\ threads'[t].op = "upload-policies"
                 => Held(sessions', s, "tech_questions") = Held(sessions, s, "tech_questions")
              /\ threads'[t].op = "generate-questions"
                 => Held(sessions', s, "policies") = Held(sessions, s, "policies")]_vars

\* the same for requests served one after the other
C14_FrameInSequence ==
    [][\A s \in SessionIds :
         /\ req'.op = "upload-policies"
              => Held(sessions', s, "tech_questions") = Held(sessions, s, "tech_questions")
         /\ req'.op = "generate-questions"
              => Held(sessions', s, "policies") = Held(sessions, s, "policies")]_vars

RECURSIVE Flat(_)
Flat(texts) == IF texts = <<>> THEN <<>> ELSE Head(texts) \o Flat(Tail(texts))

\* the block the claim gives a document: "---filename---\n" and its text
ClaimedBlock(file) ==
    <<"---", file.name, "---", NL>> \o read_pdf(file.content).val

\* the block the code gives it: "\n--- filename ---\n" and its text
PolicyBlock(file) ==
    <<NL, "--- ", file.name, " ---", NL>> \o read_pdf(file.content).val

\* C15 as stated: after a successful upload the policy text held is the
\* blocks "---filename---\n" + text of its documents, in upload order.
C15_ClaimedBlocks ==
    UploadSucceeded
      => HeldPolicies = Flat([i \in 1..Len(req.data.policy_files) |->
                                ClaimedBlock(req.data.policy_files[i])])

\* C15 amended: after a successful upload the policy text held is the
\* blocks "\n--- filename ---\n" + text of its documents, in upload order.
C15_PolicyBlocks ==
    UploadSucceeded
      => HeldPolicies = Flat([i \in 1..Len(req.data.policy_files) |->
                                PolicyBlock(req.data.policy_files[i])])

\* a scanned document, a readable one and the scanned one again
C15_Witness ==
    /\ UploadSucceeded
    /\ req.data.policy_files = <<FB, FA, FB>>
    /\ HeldPolicies = <<NL, "--- ", "b.pdf", " ---", NL,
                        NL, "--- ", "a.pdf", " ---", NL, "py", NL,
                        NL, "--- ", "b.pdf", " ---", NL>>

\* request r is a write of app.py to session s that returned out, a success
WroteTo(r, out, s) ==
    /\ app = "app.py"
    /\ r.op \in {"upload-policies", "generate-questions"}
    /\ r.data.session_id = s
    /\ out.status = 200

\* C16: a session id enters the store only with a successful
\* upload-policies or generate-questions on that id, such a request leaves
\* its id in the store, and no request takes an id out of the store.
C16_SessionLifetime ==
    [][/\ DOMAIN sessions \subseteq DOMAIN sessions'
       /\ \A s \in DOMAIN sessions' \ DOMAIN sessions : WroteTo(req', resp', s)
       /\ \A s \in SessionIds : WroteTo(req', resp', s) => s \in DOMAIN sessions']_vars

\* a policy question on a session never written to, while another session
\* holds a record: the question left no record and the other one is still there
C16_Witness ==
    /\ Served("ask-policy")
    /\ NonBlank(req.data.question)
    /\ req.data.session_id = "s1"
    /\ resp = Error(400, NotAvailable)
    /\ DOMAIN sessions = {"default"}

\* C17: in both front ends a failed gateway call is the last call of its
\* request, and the request ends in the error alone: app.py answers 500
\* with {error}, New4.py stops on the exception; no results, questions,
\* feedback or answer go out.
C17_GatewayFailureStops ==
    \A i \in 1..Len(calls) :
        ~calls[i].reply.ok
          => /\ i = Len(calls)
             /\ resp = IF app = "app.py" THEN Error(500, <<calls[i].reply.val>>)
                       ELSE Exception(<<calls[i].reply.val>>)

\* two answers to grade: the first call succeeded, the second failed, and
\* the feedback of the first is not in the response
C17_Witness ==
    /\ Served("evaluate-answers")
    /\ Len(req.data.questions) = 2
    /\ Len(calls) = 2
    /\ calls[1].reply.ok
    /\ ~calls[2].reply.ok
    /\ resp = Error(500, <<"APIError">>)

\* the response reports a failure: {error} from app.py, a warning or an
\* exception from New4.py
Failed(r) == DOMAIN r.body \in {{"error"}, {"warning"}, {"exception"}}

\* C18: a request that ends in an error leaves the session store (and
\* New4.py's session state) exactly as it found it.
C18_ErrorKeepsStore ==
    [][Failed(resp') => sessions' = sessions /\ st' = st]_vars

\* an upload whose second document fails, on a session that holds the
\* policy text of an earlier upload and a question set: both are intact and
\* nothing of the first document is stored
C18_Witness ==
    /\ Served("upload-policies")
    /\ req.data.policy_files = <<FA, FF>>
    /\ resp = Error(500, <<"PdfReadError">>)
    /\ req.data.session_id \in DOMAIN sessions
    /\ DOMAIN sessions[req.data.session_id] = {"policies", "tech_questions"}
    /\ sessions[req.data.session_id].policies = <<NL, "--- ", "b.pdf", " ---", NL>>

\* the endpoints that take a session id
TakesSession(r) == r.op \in {"upload-policies", "generate-questions", "ask-policy"}

\* C19: a request of app.py on session id s leaves every other record as
\* it was and adds no other id; evaluate-cvs, evaluate-answers and
\* ask-policy leave the whole store as it was; and the only policy text in
\* the prompt of ask-policy is the text stored under s.
C19_SessionIsolation ==
    [][app = "app.py"
         => /\ \A x \in DOMAIN sessions \cup DOMAIN sessions' :
                 (TakesSession(req') /\ x = req'.data.session_id)
                   \/ (x \in DOMAIN sessions /\ x \in DOMAIN sessions'
                        /\ sessions'[x] = sessions[x])
            /\ req'.op \in {"evaluate-cvs", "evaluate-answers", "ask-policy"}
                 => sessions' = sessions
            /\ req'.op = "ask-policy"
                 => \A i \in 1..Len(calls') :
                      /\ req'.data.session_id \in DOMAIN sessions
                      /\ "policies" \in DOMAIN sessions[req'.data.session_id]
                      /\ calls'[i].prompt =
                           Prompt("policy-qa", sessions[req'.data.session_id].policies,
                                  req'.data.question)]_vars

\* a policy question on session s1 answered from its own text while the
\* default session holds another text
C19_Witness ==
    /\ Served("ask-policy")
    /\ req.data.session_id = "s1"
    /\ resp.status = 200
    /\ DOMAIN sessions = {"default", "s1"}
    /\ "policies" \in DOMAIN sessions["default"]
    /\ sessions["default"].policies = <<NL, "--- ", "b.pdf", " ---", NL>>
    /\ calls[1].prompt.a = <<NL, "--- ", "a.pdf", " ---", NL, "py", NL>>

====
